---- MODULE Spec2Model ----
(***************************************************************************)
(* The adaptive excitation selection procedure (ADAPT-VQE) of              *)
(* examples/pennylane/6_Adjoint_gradient_computation.                      *)
(*                                                                         *)
(* Reals are kept in fixed point.  A gradient is an integer number of      *)
(* units of 1e-6, so the cutoff 1.0e-5 is 10.  A circuit parameter is an   *)
(* integer number of units of 1e-6 / StepsizeDen, so that one step of the  *)
(* gradient descent optimizer with stepsize 0.4 = StepsizeNum/StepsizeDen  *)
(* is theta - StepsizeNum * g, without rounding.                           *)
(*                                                                         *)
(* The backend (device, Hamiltonian) is outside the notebook.  It is       *)
(* modelled by a cost landscape H chosen once, when the Hamiltonian is     *)
(* built: the expectation value of a circuit is                            *)
(*   H.e0 + sum over its gates of (H.lin[wires]*theta + H.curv*theta^2/4)  *)
(* so that a circuit whose parameters are all 0 prepares the Hartree-Fock  *)
(* state of energy H.e0, and the derivative with respect to the parameter  *)
(* of a gate is H.lin[wires] + H.curv*theta/2.  Every parameter is an     *)
(* even number of units, so both are integers.                             *)
(***************************************************************************)
EXTENDS Integers, Sequences, FiniteSets, TLC

\* ---------------------------------------------------------------- bounds
MaxQubits == 5
MaxIter == 2
MaxLen == 4
MaxEvLen == 2
\* number of doubles the parameter-shift comparison evaluates at most
\* (35 in the notebook)
PsCap == 1

\* number of active electrons of the modelled molecule
Electrons == 2

\* ------------------------------------------------------ program constants
\* the cutoff 1.0e-5 of the two filters, in units of 1e-6
Cutoff == 10
\* stepsize = 0.4 = StepsizeNum / StepsizeDen
StepsizeNum == 2
StepsizeDen == 5

\* -------------------------------------------------------- backend values
\* derivative of the cost at the Hartree-Fock state, per excitation
GradVals == {0, 10, -12}
\* second derivative of the cost along one parameter, in halves: with 1 one
\* optimizer step reaches the stationary point, with 4 the steps overshoot
CurvVals == {1, 4}
\* Hartree-Fock energy
HFEnergy == -7

\* ------------------------------------------------------------------ state
VARIABLES
    pc,              \* the step of the procedure that runs next
    error,           \* the exception that ended the procedure, or "none"
    qubits,          \* number of spin orbitals
    singles,         \* candidate single excitations
    doubles,         \* candidate double excitations
    H,               \* the cost landscape of the Hamiltonian
    iterations,      \* the configured number of optimizer iterations
    params,          \* the parameter vector of the current evaluation
    doubles_grads,
    doubles_select,
    params_doubles,
    singles_grads,
    singles_select,
    gates_select,
    best_energy,
    n,               \* iterations of the current loop that are finished
    calls,           \* log of the backend evaluations, oldest first
    sel,             \* the selector applied on its own
    ev,              \* circuit_1 evaluated on its own
    ps,              \* the parameter-shift comparison that follows step 7
    ci               \* one run of the Build Conda Environment workflow

vars == <<pc, error, qubits, singles, doubles, H, iterations, params,
          doubles_grads, doubles_select, params_doubles, singles_grads,
          singles_select, gates_select, best_energy, n, calls, sel, ev,
          ps, ci>>

\* ----------------------------------------------------------------- helpers
Abs(x) == IF x < 0 THEN -x ELSE x

Zeros(k) == [i \in 1..k |-> 0]

Min(a, b) == IF a < b THEN a ELSE b

\* p with entry i moved by d
Bump(p, i, d) == [p EXCEPT ![i] = @ + d]

Range(s) == {s[i] : i \in 1..Len(s)}

RECURSIVE SumSeq(_)
SumSeq(s) == IF s = <<>> THEN 0 ELSE Head(s) + SumSeq(Tail(s))

\* lexicographic order on wire tuples of one length
RECURSIVE LexLess(_, _)
LexLess(a, b) ==
    IF a = <<>> THEN FALSE
    ELSE IF Head(a) # Head(b) THEN Head(a) < Head(b)
    ELSE LexLess(Tail(a), Tail(b))

\* the elements of a set of wire tuples, in the order nested loops list them
RECURSIVE InLoopOrder(_)
InLoopOrder(S) ==
    IF S = {} THEN <<>>
    ELSE LET m == CHOOSE x \in S : \A y \in S \ {x} : LexLess(x, y)
         IN  <<m>> \o InLoopOrder(S \ {m})

\* ------------------------------------------------------ excitation catalog
\* twice the spin projection of spin orbital i
Sz2(i) == IF i % 2 = 0 THEN 1 ELSE -1

\* qchem.excitations(electrons, orbitals)[0]: occupied r to virtual p, same spin
Singles(electrons, orbitals) ==
    InLoopOrder({ w \in { <<r, p>> : r \in 0..(electrons - 1),
                                     p \in electrons..(orbitals - 1) } :
                  Sz2(w[2]) - Sz2(w[1]) = 0 })

\* qchem.excitations(electrons, orbitals)[1]: occupied s < r to virtual q < p
Doubles(electrons, orbitals) ==
    InLoopOrder({ w \in { <<s, r, q, p>> : s \in 0..(electrons - 2),
                                           r \in 1..(electrons - 1),
                                           q \in electrons..(orbitals - 2),
                                           p \in (electrons + 1)..(orbitals - 1) } :
                  /\ w[1] < w[2]
                  /\ w[3] < w[4]
                  /\ Sz2(w[4]) + Sz2(w[3]) - Sz2(w[2]) - Sz2(w[1]) = 0 })

\* --------------------------------------------------------------- circuits
\* One gate of a tape: its name, its angle, its wires and the index of the
\* entry of the differentiated argument it reads (0: a fixed angle).
Gate(name, theta, wires, idx) ==
    [name |-> name, theta |-> theta, wires |-> wires, idx |-> idx]

\* the result of building a circuit: a tape, or the exception raised on the way
Tape(gates) == [raised |-> "none", gates |-> gates]
Raised(e) == [raised |-> e, gates |-> <<>>]

\* circuit_1(params, excitations): entry i is applied with params[i]; four
\* wires make a double excitation, any other number a single excitation.
\* params[i] past the end of params raises IndexError.
RECURSIVE Circuit1From(_, _, _)
Circuit1From(i, angles, excitations) ==
    IF i > Len(excitations) THEN Tape(<<>>)
    ELSE IF i > Len(angles) THEN Raised("IndexError")
    ELSE LET g == IF Len(excitations[i]) = 4
                  THEN Gate("DoubleExcitation", angles[i], excitations[i], i)
                  ELSE Gate("SingleExcitation", angles[i], excitations[i], i)
             rest == Circuit1From(i + 1, angles, excitations)
         IN  IF rest.raised # "none" THEN rest
             ELSE Tape(<<g>> \o rest.gates)

circuit_1(angles, excitations) == Circuit1From(1, angles, excitations)

\* the gates circuit_2 applies for one list of operations: four wires make a
\* double excitation, two a single excitation, any other entry is skipped
RECURSIVE Circuit2Gates(_, _, _, _)
Circuit2Gates(i, angles, gates, differentiated) ==
    IF i > Len(gates) THEN Tape(<<>>)
    ELSE IF Len(gates[i]) \notin {2, 4}
         THEN Circuit2Gates(i + 1, angles, gates, differentiated)
    ELSE IF i > Len(angles) THEN Raised("IndexError")
    ELSE LET idx == IF differentiated THEN i ELSE 0
             g == IF Len(gates[i]) = 4
                  THEN Gate("DoubleExcitation", angles[i], gates[i], idx)
                  ELSE Gate("SingleExcitation", angles[i], gates[i], idx)
             rest == Circuit2Gates(i + 1, angles, gates, differentiated)
         IN  IF rest.raised # "none" THEN rest
             ELSE Tape(<<g>> \o rest.gates)

\* variant: the differentiated entries are dispatched as circuit_1 does
circuit_2_ElseSingle(angles, excitations, gates_sel, angles_sel) ==
    LET fixed == Circuit2Gates(1, angles_sel, gates_sel, FALSE)
        free == Circuit1From(1, angles, excitations)
    IN  IF fixed.raised # "none" THEN fixed
        ELSE IF free.raised # "none" THEN free
        ELSE Tape(fixed.gates \o free.gates)

\* circuit_2(params, excitations, gates_select, params_select): the fixed
\* gates first, then the differentiated ones
circuit_2(angles, excitations, gates_sel, angles_sel) ==
    LET fixed == Circuit2Gates(1, angles_sel, gates_sel, FALSE)
        free == Circuit2Gates(1, angles, excitations, TRUE)
    IN  IF fixed.raised # "none" THEN fixed
        ELSE IF free.raised # "none" THEN free
        ELSE Tape(fixed.gates \o free.gates)

\* ---------------------------------------------------------------- backend
\* qml.expval(H) of a tape under the landscape h
Expval(h, gates) ==
    h.e0 + SumSeq([k \in 1..Len(gates) |->
                     h.lin[gates[k].wires] * gates[k].theta
                     + (h.curv * gates[k].theta * gates[k].theta) \div 4])

\* variant: one entry per gate of the tape, the fixed ones included
Gradient_AllGates(h, gates, len) ==
    [k \in 1..Len(gates) |->
        h.lin[gates[k].wires] + (h.curv * gates[k].theta) \div 2]

\* qml.grad(circuit, argnum=0): one entry per entry of the differentiated
\* argument, the derivative of the expectation value with respect to it
Gradient(h, gates, len) ==
    [i \in 1..len |->
        SumSeq([k \in 1..Len(gates) |->
                  IF gates[k].idx = i
                  THEN h.lin[gates[k].wires] + (h.curv * gates[k].theta) \div 2
                  ELSE 0])]

\* ---------------------------------------------------------------- selector
\* variants of the condition: without abs, with >=, with the comparison turned
Keeps_NoAbs(g, cutoff) == g > cutoff
Keeps_AtLeast(g, cutoff) == Abs(g) >= cutoff
Keeps_Below(g, cutoff) == Abs(g) < cutoff

\* the condition of the filter: abs(grads[i]) > cutoff
Keeps(g, cutoff) == Abs(g) > cutoff

\* [cands[i] for i in range(len(cands)) if abs(grads[i]) > cutoff]
RECURSIVE SelectFrom(_, _, _, _)
SelectFrom(i, cands, grads, cutoff) ==
    IF i > Len(cands) THEN <<>>
    ELSE (IF Keeps(grads[i], cutoff) THEN <<cands[i]>> ELSE <<>>)
         \o SelectFrom(i + 1, cands, grads, cutoff)

\* variant: each kept entry is put in front of the list built so far
RECURSIVE Select_Prepending(_, _, _)
Select_Prepending(cands, grads, cutoff) ==
    IF cands = <<>> THEN <<>>
    ELSE Select_Prepending(Tail(cands), Tail(grads), cutoff)
         \o (IF Keeps(Head(grads), cutoff) THEN <<Head(cands)>> ELSE <<>>)

\* variant: entry i is tested with grads[i - 1] (in Python, grads[-1] is the last)
Select_Shifted(cands, grads, cutoff) ==
    LET prev(i) == IF i = 1 THEN Len(grads) ELSE i - 1
        F[i \in 1..(Len(cands) + 1)] ==
            IF i > Len(cands) THEN <<>>
            ELSE (IF Keeps(grads[prev(i)], cutoff) THEN <<cands[i]>> ELSE <<>>)
                 \o F[i + 1]
    IN  F[1]

Select(cands, grads, cutoff) == SelectFrom(1, cands, grads, cutoff)

\* -------------------------------------------------------------- optimizer
\* variant: the step goes up the gradient
ApplyGrad_Ascent(x, grad) == [i \in 1..Len(x) |-> x[i] + StepsizeNum * grad[i]]

\* GradientDescentOptimizer.apply_grad: x - stepsize * grad, entry by entry
ApplyGrad(x, grad) == [i \in 1..Len(x) |-> x[i] - StepsizeNum * grad[i]]

\* variant: the loop also ends once the last gradient was all zero
RangeHasNext_UntilStationary(done, iters) ==
    /\ done < iters
    /\ \/ done = 0
       \/ \E i \in 1..Len(calls[Len(calls)].grad) : calls[Len(calls)].grad[i] # 0

\* variant: one iteration too many
RangeHasNext_OneMore(done, iters) == done <= iters

\* for n in range(iterations): is there a next n after `done` iterations
RangeHasNext(done, iters) == done < iters

\* variant: the lowest energy seen is kept
RetainEnergy_Lowest(previous, energy) ==
    IF energy < previous THEN energy ELSE previous

\* best_energy = energy.numpy()
RetainEnergy(previous, energy) == energy

\* variant: the doubles entries start from their optimized values
JointParams_WarmStart(ds, ss) == params_doubles \o Zeros(Len(ss))

\* variant: only the selected singles get a parameter
JointParams_SinglesOnly(ds, ss) == Zeros(Len(ss))

\* params = np.zeros(len(doubles_select + singles_select))
JointParams(ds, ss) == Zeros(Len(ds \o ss))

\* variant: the selected singles come first
JointGates_SinglesFirst(ds, ss) == ss \o ds

\* gates_select = doubles_select + singles_select
JointGates(ds, ss) == ds \o ss

catalog == <<qubits, singles, doubles, H, iterations>>
extras == <<ps, ci>>
harness == <<sel, ev, ps, ci>>

SelIdle == [phase |-> "idle", cands |-> <<>>, grads |-> <<>>, cutoff |-> 0,
            out |-> <<>>, kept |-> <<>>, out2 |-> <<>>]
EvIdle == [phase |-> "idle", excitations |-> <<>>, params |-> <<>>,
           raised |-> "none", backend_calls |-> 0, cost |-> 0,
           new_params |-> <<>>, built_1 |-> Tape(<<>>),
           built_2 |-> Tape(<<>>)]

PsIdle == [phase |-> "idle", doubles_count |-> 0, doubles_ps |-> <<>>,
           rounding |-> <<>>, unbatched_grads |-> <<>>,
           batched_grads |-> <<>>, factor |-> <<>>, raised |-> "none",
           asserted |-> 0, pending |-> {}, completed |-> <<>>]
CiIdle == [phase |-> "idle", event |-> "none", branch |-> <<>>,
           changed |-> {}, ran |-> <<>>, failed |-> "none"]

ExtrasIdle ==
    /\ ps = PsIdle
    /\ ci = CiIdle

\* one backend evaluation, as logged: the stage, the differentiated
\* parameters, the tape that was run, the gradient and the cost returned
Call(stage, at, gates, grad, cost) ==
    [stage |-> stage, at |-> at, gates |-> gates, grad |-> grad,
     cost |-> cost]

\* the landscapes of a molecule with the given candidate excitations
Landscapes(ops) ==
    { [e0 |-> HFEnergy, lin |-> l, curv |-> c] :
        l \in [ops -> GradVals], c \in CurvVals }

\* ------------------------------------------------------------------- Init
\* The state after the Hamiltonian and the candidate sets are built, before
\* step 1.  Variables the notebook has not assigned yet hold empty values.
Init ==
    /\ pc = "EnumerateDoubles"
    /\ error = "none"
    /\ qubits \in (Electrons + 1)..MaxQubits
    /\ singles = Singles(Electrons, qubits)
    /\ doubles = Doubles(Electrons, qubits)
    /\ H \in Landscapes(Range(singles) \cup Range(doubles))
    /\ iterations \in 0..MaxIter
    /\ params = <<>>
    /\ doubles_grads = <<>>
    /\ doubles_select = <<>>
    /\ params_doubles = <<>>
    /\ singles_grads = <<>>
    /\ singles_select = <<>>
    /\ gates_select = <<>>
    /\ best_energy = 0
    /\ n = 0
    /\ calls = <<>>
    /\ sel = SelIdle
    /\ ev = EvIdle
    /\ ExtrasIdle

\* ---------------------------------------------------------------- actions
\* Step 1: doubles_select = []; params = [0.0] * len(doubles);
\*         doubles_grads = circuit_gradient(params, excitations=doubles)
ComputeDoublesGrads ==
    /\ pc = "EnumerateDoubles"
    /\ LET p0 == Zeros(Len(doubles))
           t == circuit_1(p0, doubles)
           g == Gradient(H, t.gates, Len(p0))
       IN  /\ params' = p0
           /\ IF t.raised # "none"
              THEN /\ pc' = "Failed"
                   /\ error' = t.raised
                   /\ UNCHANGED <<doubles_grads, calls>>
              ELSE /\ pc' = "FilterDoubles"
                   /\ doubles_grads' = g
                   /\ calls' = Append(calls, Call(pc, p0, t.gates, g, Expval(H, t.gates)))
                   /\ UNCHANGED error
    /\ doubles_select' = <<>>
    /\ UNCHANGED <<catalog, params_doubles, singles_grads,
                   singles_select, gates_select, best_energy, n, harness>>

\* Step 2: doubles_select = [...]; then the head of step 3:
\*         params_doubles = np.zeros(len(doubles_select)), before the loop
FilterDoubles ==
    /\ pc = "FilterDoubles"
    /\ doubles_select' = Select(doubles, doubles_grads, Cutoff)
    /\ params_doubles' = Zeros(Len(doubles_select'))
    /\ n' = 0
    /\ pc' = "OptimizeDoubles"
    /\ UNCHANGED <<error, catalog, params, doubles_grads, singles_grads,
                   singles_select, gates_select, best_energy, calls, harness>>

\* Step 3, one iteration:
\*   params_doubles = opt.step(circuit_1, params_doubles, excitations=doubles_select)
DoublesOptIter ==
    /\ pc = "OptimizeDoubles"
    /\ RangeHasNext(n, iterations)
    /\ LET t == circuit_1(params_doubles, doubles_select)
           g == Gradient(H, t.gates, Len(params_doubles))
       IN  IF t.raised # "none"
           THEN /\ pc' = "Failed"
                /\ error' = t.raised
                /\ UNCHANGED <<params_doubles, n, calls>>
           ELSE /\ params_doubles' = ApplyGrad(params_doubles, g)
                /\ n' = n + 1
                /\ calls' = Append(calls, Call(pc, params_doubles, t.gates,
                                               g, Expval(H, t.gates)))
                /\ UNCHANGED <<pc, error>>
    /\ UNCHANGED <<catalog, params, doubles_grads, doubles_select,
                   singles_grads, singles_select, gates_select, best_energy,
                   harness>>

\* variant: the loop is left before its iterations are used up
DoublesOptDone_Early ==
    /\ pc = "OptimizeDoubles"
    /\ pc' = "EnumerateSingles"
    /\ UNCHANGED <<error, catalog, params, doubles_grads, doubles_select,
                   params_doubles, singles_grads, singles_select,
                   gates_select, best_energy, n, calls, harness>>

\* Step 3, the loop is exhausted
DoublesOptDone ==
    /\ pc = "OptimizeDoubles"
    /\ ~RangeHasNext(n, iterations)
    /\ pc' = "EnumerateSingles"
    /\ UNCHANGED <<error, catalog, params, doubles_grads, doubles_select,
                   params_doubles, singles_grads, singles_select,
                   gates_select, best_energy, n, calls, harness>>

\* Step 4: params = [0.0] * len(singles);
\*   singles_grads = circuit_gradient(params, excitations=singles,
\*       gates_select=doubles_select, params_select=params_doubles)
ComputeSinglesGrads ==
    /\ pc = "EnumerateSingles"
    /\ LET p0 == Zeros(Len(singles))
           t == circuit_2(p0, singles, doubles_select, params_doubles)
           g == Gradient(H, t.gates, Len(p0))
       IN  /\ params' = p0
           /\ IF t.raised # "none"
              THEN /\ pc' = "Failed"
                   /\ error' = t.raised
                   /\ UNCHANGED <<singles_grads, calls>>
              ELSE /\ pc' = "FilterSingles"
                   /\ singles_grads' = g
                   /\ calls' = Append(calls, Call(pc, p0, t.gates, g, Expval(H, t.gates)))
                   /\ UNCHANGED error
    /\ UNCHANGED <<catalog, doubles_grads, doubles_select, params_doubles,
                   singles_select, gates_select, best_energy, n, harness>>

\* Step 5: singles_select = [...]; then the head of step 6:
\*   params = np.zeros(len(doubles_select + singles_select));
\*   gates_select = doubles_select + singles_select; best_energy = 0.0
FilterSingles ==
    /\ pc = "FilterSingles"
    /\ singles_select' = Select(singles, singles_grads, Cutoff)
    /\ params' = JointParams(doubles_select, singles_select')
    /\ gates_select' = JointGates(doubles_select, singles_select')
    /\ best_energy' = 0
    /\ n' = 0
    /\ pc' = "JointOptimize"
    /\ UNCHANGED <<error, catalog, doubles_grads, doubles_select,
                   params_doubles, singles_grads, calls, harness>>

\* variant: the cost returned is the one after the update
JointOptIter_CostAfter ==
    /\ pc = "JointOptimize"
    /\ RangeHasNext(n, iterations)
    /\ LET t == circuit_1(params, gates_select)
           g == Gradient(H, t.gates, Len(params))
           energy == Expval(H, circuit_1(ApplyGrad(params, g),
                                         gates_select).gates)
       IN  /\ params' = ApplyGrad(params, g)
           /\ best_energy' = RetainEnergy(best_energy, energy)
           /\ n' = n + 1
           /\ calls' = Append(calls, Call(pc, params, t.gates, g, energy))
           /\ UNCHANGED <<pc, error>>
    /\ UNCHANGED <<catalog, doubles_grads, doubles_select, params_doubles,
                   singles_grads, singles_select, gates_select, harness>>

\* variant: every iteration starts again from the initial parameters
JointOptIter_FromStart ==
    /\ pc = "JointOptimize"
    /\ RangeHasNext(n, iterations)
    /\ LET p0 == Zeros(Len(params))
           t == circuit_1(p0, gates_select)
           g == Gradient(H, t.gates, Len(p0))
           energy == Expval(H, t.gates)
       IN  /\ params' = ApplyGrad(p0, g)
           /\ best_energy' = RetainEnergy(best_energy, energy)
           /\ n' = n + 1
           /\ calls' = Append(calls, Call(pc, p0, t.gates, g, energy))
           /\ UNCHANGED <<pc, error>>
    /\ UNCHANGED <<catalog, doubles_grads, doubles_select, params_doubles,
                   singles_grads, singles_select, gates_select, harness>>

\* Step 6, one iteration:
\*   params, energy = opt.step_and_cost(circuit_1, params, excitations=gates_select)
\*   best_energy = energy.numpy()
\* step_and_cost returns the updated parameters and the cost before the update
JointOptIter ==
    /\ pc = "JointOptimize"
    /\ RangeHasNext(n, iterations)
    /\ LET t == circuit_1(params, gates_select)
           g == Gradient(H, t.gates, Len(params))
           energy == Expval(H, t.gates)
       IN  IF t.raised # "none"
           THEN /\ pc' = "Failed"
                /\ error' = t.raised
                /\ UNCHANGED <<params, best_energy, n, calls>>
           ELSE /\ params' = ApplyGrad(params, g)
                /\ best_energy' = RetainEnergy(best_energy, energy)
                /\ n' = n + 1
                /\ calls' = Append(calls, Call(pc, params, t.gates, g, energy))
                /\ UNCHANGED <<pc, error>>
    /\ UNCHANGED <<catalog, doubles_grads, doubles_select, params_doubles,
                   singles_grads, singles_select, gates_select, harness>>

\* variant: after the joint optimization another round of selection starts
JointOptDone_AnotherRound ==
    /\ pc = "JointOptimize"
    /\ ~RangeHasNext(n, iterations)
    /\ pc' = "EnumerateSingles"
    /\ UNCHANGED <<error, catalog, params, doubles_grads, doubles_select,
                   params_doubles, singles_grads, singles_select,
                   gates_select, best_energy, n, calls, harness>>

\* Step 7: the loop is exhausted; print(f"Best energy: {best_energy}")
JointOptDone ==
    /\ pc = "JointOptimize"
    /\ ~RangeHasNext(n, iterations)
    /\ pc' = "Done"
    /\ UNCHANGED <<error, catalog, params, doubles_grads, doubles_select,
                   params_doubles, singles_grads, singles_select,
                   gates_select, best_energy, n, calls, harness>>

\* is the procedure about to ask the backend for an evaluation
AtBackendCall ==
    \/ pc \in {"EnumerateDoubles", "EnumerateSingles"}
    \/ pc \in {"OptimizeDoubles", "JointOptimize"} /\ RangeHasNext(n, iterations)

\* variant: the exception is caught and the run goes on
BackendFails_Swallowed ==
    /\ AtBackendCall
    /\ error = "none"
    /\ error' = "BackendError"
    /\ UNCHANGED <<pc, catalog, params, doubles_grads, doubles_select,
                   params_doubles, singles_grads, singles_select,
                   gates_select, best_energy, n, calls, harness>>

\* The backend call of the current step raises: nothing in the notebook
\* catches it, the cell stops and no later cell runs.  The assignments the
\* cell made before the call stay (params in steps 1 and 4).
BackendFails ==
    /\ AtBackendCall
    /\ pc' = "Failed"
    /\ error' = "BackendError"
    /\ params' = IF pc = "EnumerateDoubles" THEN Zeros(Len(doubles))
                 ELSE IF pc = "EnumerateSingles" THEN Zeros(Len(singles))
                 ELSE params
    /\ UNCHANGED <<catalog, doubles_grads, doubles_select,
                   params_doubles, singles_grads, singles_select,
                   gates_select, best_energy, n, calls, harness>>

Next ==
    \/ ComputeDoublesGrads
    \/ FilterDoubles
    \/ DoublesOptIter
    \/ DoublesOptDone
    \/ ComputeSinglesGrads
    \/ FilterSingles
    \/ JointOptIter
    \/ JointOptDone
    \/ BackendFails

Spec == Init /\ [][Next]_vars

\* The pipeline with its scheduling: the kernel runs the cells one after the
\* other and every backend call is blocking and returns or raises, so a step
\* that can be taken is taken.  Progress is checked on the molecules with up
\* to two virtual spin orbitals and the landscapes on which the optimizer
\* steps overshoot.
FairInit == Init /\ qubits <= Electrons + 2 /\ H.curv = 4

FairSpec == FairInit /\ [][Next]_vars /\ WF_vars(Next)

\* ------------------------------------------------- the selector on its own
\* The filter of steps 2 and 5 applied to a candidate list, a gradient
\* vector of the same length and a cutoff, all chosen freely; then applied
\* again to what it kept.

\* gradient magnitudes around the cutoffs, in units of 1e-6
SelGradVals == {0, 1, 5, 10, 10000, 20000, -20000}
SelCutoffs == {0, 10, 20000}

\* all sequences over S of length at most k
SeqsUpTo(S, k) == UNION { [1..m -> S] : m \in 0..k }

\* the procedure has not been started
PipelineIdle ==
    /\ pc = "Idle"
    /\ error = "none"
    /\ iterations = 0
    /\ params = <<>>
    /\ doubles_grads = <<>>
    /\ doubles_select = <<>>
    /\ params_doubles = <<>>
    /\ singles_grads = <<>>
    /\ singles_select = <<>>
    /\ gates_select = <<>>
    /\ best_energy = 0
    /\ n = 0
    /\ calls = <<>>

pipeline == <<pc, error, params, doubles_grads, doubles_select,
              params_doubles, singles_grads, singles_select, gates_select,
              best_energy, n, calls>>

SelInit ==
    /\ PipelineIdle
    /\ qubits = Electrons + MaxLen + 1
    /\ singles = Singles(Electrons, qubits)
    /\ doubles = Doubles(Electrons, qubits)
    /\ H = [e0 |-> HFEnergy,
            lin |-> [w \in Range(singles) \cup Range(doubles) |-> 0],
            curv |-> 0]
    /\ ev = EvIdle
    /\ ExtrasIdle
    /\ \E cands \in {doubles, singles}, k \in 0..MaxLen, c \in SelCutoffs :
         \E grads \in [1..k -> SelGradVals] :
            sel = [phase |-> "input", cands |-> SubSeq(cands, 1, k),
                   grads |-> grads, cutoff |-> c,
                   out |-> <<>>, kept |-> <<>>, out2 |-> <<>>]

\* the gradient entries that belong to the operations of `out`
GradsOf(out, cands, grads) ==
    [j \in 1..Len(out) |->
        grads[CHOOSE i \in 1..Len(cands) : cands[i] = out[j]]]

\* doubles_select = [doubles[i] for i in range(len(doubles))
\*                   if abs(doubles_grads[i]) > cutoff]
SelectorApply ==
    /\ sel.phase = "input"
    /\ LET out == Select(sel.cands, sel.grads, sel.cutoff)
       IN  sel' = [sel EXCEPT !.phase = "selected", !.out = out,
                              !.kept = GradsOf(out, sel.cands, sel.grads)]
    /\ UNCHANGED <<pipeline, catalog, ev, extras>>

\* the same filter run on the selected list and its gradients
SelectorReapply ==
    /\ sel.phase = "selected"
    /\ sel' = [sel EXCEPT !.phase = "reselected",
                          !.out2 = Select(sel.out, sel.kept, sel.cutoff)]
    /\ UNCHANGED <<pipeline, catalog, ev, extras>>

SelNext ==
    \/ SelectorApply
    \/ SelectorReapply

SelSpec == SelInit /\ [][SelNext]_vars

\* ------------------------------------------- one optimizer step on its own
\* opt.step_and_cost(circuit_1, params, excitations=...) called with an
\* operation list and a parameter vector chosen freely, of any two lengths.

EvParamVals == {0, 2}

EvInit ==
    /\ PipelineIdle
    /\ qubits = Electrons + 2
    /\ singles = Singles(Electrons, qubits)
    /\ doubles = Doubles(Electrons, qubits)
    /\ H \in Landscapes(Range(singles) \cup Range(doubles))
    /\ sel = SelIdle
    /\ ExtrasIdle
    /\ \E ex \in SeqsUpTo(Range(singles) \cup Range(doubles), MaxEvLen),
          p \in SeqsUpTo(EvParamVals, MaxEvLen + 1) :
            ev = [EvIdle EXCEPT !.phase = "input", !.excitations = ex,
                                !.params = p]

\* the QNode builds the tape of circuit_1 and, if that raised nothing, has
\* the device evaluate it; the optimizer then updates the parameters
EvalStepAndCost ==
    /\ ev.phase = "input"
    /\ LET t == circuit_1(ev.params, ev.excitations)
           g == Gradient(H, t.gates, Len(ev.params))
       IN  IF t.raised # "none"
           THEN ev' = [ev EXCEPT !.phase = "raised", !.raised = t.raised]
           ELSE ev' = [ev EXCEPT !.phase = "returned",
                                 !.backend_calls = ev.backend_calls + 1,
                                 !.cost = Expval(H, t.gates),
                                 !.new_params = ApplyGrad(ev.params, g)]
    /\ UNCHANGED <<pipeline, catalog, sel, extras>>

EvNext == EvalStepAndCost

EvSpec == EvInit /\ [][EvNext]_vars

\* ------------------------------------ the two circuit builders side by side
\* circuit_1(params, excitations) and circuit_2(params, excitations, [], [])
\* built for one operation list and one parameter vector chosen freely; the
\* list may hold an entry that has neither two nor four wires.

\* an entry of another arity
OtherArityOps == {<<0, 1, 2>>}

DispatchInit ==
    /\ PipelineIdle
    /\ qubits = Electrons + 2
    /\ singles = Singles(Electrons, qubits)
    /\ doubles = Doubles(Electrons, qubits)
    /\ H = [e0 |-> HFEnergy,
            lin |-> [w \in Range(singles) \cup Range(doubles) |-> 0],
            curv |-> 0]
    /\ sel = SelIdle
    /\ ExtrasIdle
    /\ \E ex \in SeqsUpTo(Range(singles) \cup Range(doubles)
                              \cup OtherArityOps, MaxEvLen),
          p \in SeqsUpTo(EvParamVals, MaxEvLen) :
            ev = [EvIdle EXCEPT !.phase = "to_build", !.excitations = ex,
                                !.params = p]

\* both builders run on the same arguments, circuit_2 with an empty background
BuildBoth ==
    /\ ev.phase = "to_build"
    /\ ev' = [ev EXCEPT !.phase = "built",
                        !.built_1 = circuit_1(ev.params, ev.excitations),
                        !.built_2 = circuit_2(ev.params, ev.excitations,
                                              <<>>, <<>>)]
    /\ UNCHANGED <<pipeline, catalog, sel, extras>>

DispatchNext == BuildBoth

DispatchSpec == DispatchInit /\ [][DispatchNext]_vars

\* ------------------------------------- the parameter-shift comparison
\* The cells after step 7: the derivatives of the first doubles_count doubles
\* are computed again with diff_method = "parameter-shift", serially and with
\* parallel dispatch, the timings are extrapolated and the derivatives are
\* compared with the adjoint ones of step 1.

\* Parameter-shift derivatives are kept in units Fine times finer than the
\* adjoint ones (1e-9), so that the floating-point difference between the two
\* methods that the recorded outputs show has room.
Fine == 1000
\* the floating-point difference of one entry, in fine units
RoundingVals == {-1, 0, 1}
\* np.allclose defaults: atol = 1e-8 in fine units, rtol = 1e-5 = 1 / RtolInv
AllCloseAtol == 10
AllCloseRtolInv == 100000

\* variant: the last k entries, s[-k:]
Take_FromEnd(s, k) == SubSeq(s, Len(s) - Min(k, Len(s)) + 1, Len(s))

\* s[:k] for k >= 0
Take(s, k) == SubSeq(s, 1, Min(k, Len(s)))

\* variant: a one-sided difference
ParameterShift_OneSided(h, p, excitations, rounding) ==
    [i \in 1..Len(p) |->
        Fine * ((Expval(h, circuit_1(Bump(p, i, 2), excitations).gates)
                 - Expval(h, circuit_1(p, excitations).gates)) \div 2)
        + rounding[i]]

\* qml.grad of a qnode with diff_method="parameter-shift": entry i is the
\* difference of two executions of the circuit with parameter i shifted up
\* and down, scaled; it carries the floating-point error of the executions
ParameterShift(h, p, excitations, rounding) ==
    [i \in 1..Len(p) |->
        Fine * ((Expval(h, circuit_1(Bump(p, i, 2), excitations).gates)
                 - Expval(h, circuit_1(Bump(p, i, -2), excitations).gates))
                \div 4)
        + rounding[i]]

\* [d.numpy() for d in doubles_grads[:doubles_count]], in fine units
AdjointDerivs(k) == [i \in 1..Min(k, Len(doubles_grads)) |-> Fine * doubles_grads[i]]

\* np.allclose(a, b) for two lists of one length:
\* |a[i] - b[i]| <= atol + rtol * |b[i]| for every i
AllClose(a, b) ==
    /\ Len(a) = Len(b)
    /\ \A i \in 1..Len(a) :
          Abs(a[i] - b[i]) * AllCloseRtolInv
              <= AllCloseAtol * AllCloseRtolInv + Abs(b[i])

\* what the comparison cells leave alone of the pipeline
results == <<pc, error, doubles_grads, doubles_select, params_doubles,
             singles_grads, singles_select, gates_select, best_energy, n,
             calls>>

\* variant: the list is cut in place, del doubles[doubles_count:]
SliceDoubles_InPlace ==
    /\ pc = "Done"
    /\ ps.phase = "idle"
    /\ LET k == Min(PsCap, Len(doubles))
       IN  /\ doubles' = Take(doubles, k)
           /\ ps' = [ps EXCEPT !.phase = "sliced", !.doubles_count = k,
                               !.doubles_ps = doubles']
    /\ UNCHANGED <<results, params, qubits, singles, H, iterations, sel, ev,
                   ci>>

\* doubles_count = min(35, len(doubles)); doubles_ps = doubles[:doubles_count]
SliceDoubles ==
    /\ pc = "Done"
    /\ ps.phase = "idle"
    /\ LET k == Min(PsCap, Len(doubles))
       IN  ps' = [ps EXCEPT !.phase = "sliced", !.doubles_count = k,
                           !.doubles_ps = Take(doubles, k)]
    /\ UNCHANGED <<results, params, catalog, sel, ev, ci>>

\* params = [0.0] * doubles_count
\* unbatched_grads = circuit_gradient(params, excitations=doubles_ps)
\* with circuit_gradient = qml.grad(circuit_1_ps_serial, argnum=0)
UnbatchedGrads ==
    /\ pc = "Done"
    /\ ps.phase = "sliced"
    /\ params' = Zeros(ps.doubles_count)
    /\ \E r \in [1..ps.doubles_count -> RoundingVals] :
          ps' = [ps EXCEPT !.phase = "unbatched", !.rounding = r,
                           !.unbatched_grads =
                               ParameterShift(H, params', ps.doubles_ps, r)]
    /\ UNCHANGED <<results, catalog, sel, ev, ci>>

\* params = [0.0] * doubles_count
\* batched_grads = circuit_gradient(params, excitations=doubles_ps)
\* with circuit_gradient = qml.grad(circuit_1_ps_parallel, argnum=0): the same
\* executions on the same simulator, dispatched together
BatchedGrads ==
    /\ pc = "Done"
    /\ ps.phase = "unbatched"
    /\ params' = Zeros(ps.doubles_count)
    /\ ps' = [ps EXCEPT !.phase = "batched",
                        !.batched_grads =
                            ParameterShift(H, params', ps.doubles_ps,
                                           ps.rounding)]
    /\ UNCHANGED <<results, catalog, sel, ev, ci>>

\* either parameter-shift call raises; params was assigned before the call
PsBackendFails ==
    /\ pc = "Done"
    /\ ps.phase \in {"sliced", "unbatched"}
    /\ params' = Zeros(ps.doubles_count)
    /\ ps' = [ps EXCEPT !.phase = "raised", !.raised = "BackendError"]
    /\ UNCHANGED <<results, catalog, sel, ev, ci>>

\* extrapolated_..._time = ..._time * (len(doubles) / doubles_count), twice
Extrapolate ==
    /\ pc = "Done"
    /\ ps.phase = "batched"
    /\ IF ps.doubles_count = 0
       THEN ps' = [ps EXCEPT !.phase = "raised",
                             !.raised = "ZeroDivisionError"]
       ELSE ps' = [ps EXCEPT !.phase = "extrapolated",
                             !.factor = <<Len(doubles), ps.doubles_count>>]
    /\ UNCHANGED <<results, params, catalog, sel, ev, ci>>

\* assert np.allclose(adjoint_derivs, unbatched_derivs)
CheckUnbatched ==
    /\ pc = "Done"
    /\ ps.phase = "extrapolated"
    /\ IF AllClose(AdjointDerivs(ps.doubles_count),
                   Take(ps.unbatched_grads, ps.doubles_count))
       THEN ps' = [ps EXCEPT !.phase = "unbatched_checked", !.asserted = 1]
       ELSE ps' = [ps EXCEPT !.phase = "raised", !.raised = "AssertionError"]
    /\ UNCHANGED <<results, params, catalog, sel, ev, ci>>

\* assert np.allclose(adjoint_derivs, batched_derivs)
CheckBatched ==
    /\ pc = "Done"
    /\ ps.phase = "unbatched_checked"
    /\ IF AllClose(AdjointDerivs(ps.doubles_count),
                   Take(ps.batched_grads, ps.doubles_count))
       THEN ps' = [ps EXCEPT !.phase = "checked", !.asserted = 2]
       ELSE ps' = [ps EXCEPT !.phase = "raised", !.raised = "AssertionError"]
    /\ UNCHANGED <<results, params, catalog, sel, ev, ci>>

\* the whole notebook: the pipeline, then the comparison
NbNext ==
    \/ Next
    \/ SliceDoubles
    \/ UnbatchedGrads
    \/ BatchedGrads
    \/ PsBackendFails
    \/ Extrapolate
    \/ CheckUnbatched
    \/ CheckBatched

NbSpec == Init /\ [][NbNext]_vars

\* ---------------------------------------------- parallel dispatch on its own
\* The batched parameter-shift call taken apart: with parallel=True the
\* device sends the shifted circuits of one gradient as a batch of tasks that
\* run at the same time and complete in any order; the results are then read
\* per task and combined into the gradient.

\* the circuits of one parameter-shift gradient: for parameter i, task 2i-1
\* is the circuit shifted up and task 2i the circuit shifted down
ShiftedExecutions(h, p, excitations) ==
    [t \in 1..(2 * Len(p)) |->
        LET i == (t + 1) \div 2
            d == IF t % 2 = 1 THEN 2 ELSE -2
        IN  Expval(h, circuit_1(Bump(p, i, d), excitations).gates)]

\* the gradient from the results of the tasks, values[t] being task t's
FromExecutions(values, rounding) ==
    [i \in 1..(Len(values) \div 2) |->
        Fine * ((values[2 * i - 1] - values[2 * i]) \div 4) + rounding[i]]

\* variant: the results are taken in the order the tasks completed
BatchResults_InCompletionOrder(completed) ==
    [j \in 1..Len(completed) |-> completed[j].value]

\* the results of a batch, in the order the tasks were submitted
BatchResults(completed) ==
    [t \in 1..Len(completed) |->
        (CHOOSE e \in Range(completed) : e.task = t).value]

\* a molecule with doubles, a landscape over them, and the serial
\* parameter-shift gradient of the first doubles_count doubles already taken
BatchInit ==
    /\ PipelineIdle
    /\ qubits \in (Electrons + 2)..MaxQubits
    /\ singles = Singles(Electrons, qubits)
    /\ doubles = Doubles(Electrons, qubits)
    /\ H \in Landscapes(Range(doubles))
    /\ sel = SelIdle
    /\ ev = EvIdle
    /\ ci = CiIdle
    /\ LET k == Min(PsCap, Len(doubles))
       IN  \E r \in [1..k -> RoundingVals] :
              ps = [PsIdle EXCEPT
                       !.phase = "unbatched", !.doubles_count = k,
                       !.doubles_ps = Take(doubles, k), !.rounding = r,
                       !.unbatched_grads =
                           ParameterShift(H, Zeros(k), Take(doubles, k), r)]

\* circuit_gradient(params, excitations=doubles_ps) on dev_parallel: the
\* shifted circuits are submitted together
BatchDispatch ==
    /\ pc = "Idle"
    /\ ps.phase = "unbatched"
    /\ ps' = [ps EXCEPT !.phase = "dispatched",
                        !.pending = 1..(2 * ps.doubles_count),
                        !.completed = <<>>]
    /\ UNCHANGED <<pipeline, catalog, sel, ev, ci>>

\* one of the running tasks completes
BatchTaskCompletes ==
    /\ pc = "Idle"
    /\ ps.phase = "dispatched"
    /\ \E t \in ps.pending :
          ps' = [ps EXCEPT
                   !.pending = ps.pending \ {t},
                   !.completed =
                       Append(ps.completed,
                              [task |-> t,
                               value |-> ShiftedExecutions(
                                   H, Zeros(ps.doubles_count),
                                   ps.doubles_ps)[t]])]
    /\ UNCHANGED <<pipeline, catalog, sel, ev, ci>>

\* all tasks have completed: batched_grads is built from their results
BatchCollect ==
    /\ pc = "Idle"
    /\ ps.phase = "dispatched"
    /\ ps.pending = {}
    /\ ps' = [ps EXCEPT !.phase = "batched",
                        !.batched_grads =
                            FromExecutions(BatchResults(ps.completed),
                                           ps.rounding)]
    /\ UNCHANGED <<pipeline, catalog, sel, ev, ci>>

BatchNext ==
    \/ BatchDispatch
    \/ BatchTaskCompletes
    \/ BatchCollect

BatchSpec == BatchInit /\ [][BatchNext]_vars

\* ------------------------------------------ the Build Conda Environment CI
\* The workflow file: its triggers (on:) and the steps of its one job, build.
\* A branch is the sequence of the segments of its name between slashes.

\* on.push.branches
PushBranches == {<<"main">>}
\* on.pull_request.branches
PullRequestBranches == {<<"main">>, <<"feature", "**">>}

\* jobs.build.steps, in the listed order
Steps ==
    <<"Maximize build space", "actions/checkout@v4", "Setup python 3.11",
      "Pull Docker image", "Build conda environment">>

\* the container image a step names, "none" for a step that names no image
StepImage(step) ==
    CASE step = "Pull Docker image" ->
             "public.ecr.aws/codebuild/local-builds:latest"
      [] step = "Build conda environment" ->
             "public.ecr.aws/codebuild/local-builds:latest"
      [] OTHER -> "none"

\* the events, branches and kinds of changed files that are tried
CiEvents == {"push", "pull_request"}
CiBranches ==
    {<<"main">>, <<"dev">>, <<"feature">>, <<"feature", "x">>,
     <<"feature", "a", "b">>}
CiFileKinds == {"yml", "ipynb", "py"}

\* a branch filter pattern matches a branch name: a segment matches itself
\* and ** matches any non-empty rest of the name
RECURSIVE GlobMatches(_, _)
GlobMatches(pattern, branch) ==
    IF pattern = <<>> THEN branch = <<>>
    ELSE IF Head(pattern) = "**"
         THEN \E k \in 1..Len(branch) :
                 GlobMatches(Tail(pattern), SubSeq(branch, k + 1, Len(branch)))
    ELSE /\ branch # <<>>
         /\ Head(branch) = Head(pattern)
         /\ GlobMatches(Tail(pattern), Tail(branch))

\* on: a push to a matching branch or a pull request whose base branch
\* matches; there is no paths filter, the changed files play no part
Triggers(event, branch, changed) ==
    \/ event = "push"
       /\ \E pat \in PushBranches : GlobMatches(pat, branch)
    \/ event = "pull_request"
       /\ \E pat \in PullRequestBranches : GlobMatches(pat, branch)

CiInit ==
    /\ PipelineIdle
    /\ qubits = 0
    /\ singles = <<>>
    /\ doubles = <<>>
    /\ H = [e0 |-> HFEnergy, lin |-> <<>>, curv |-> 0]
    /\ sel = SelIdle
    /\ ev = EvIdle
    /\ ps = PsIdle
    /\ \E e \in CiEvents, b \in CiBranches,
          c \in (SUBSET CiFileKinds) \ {{}} :
            ci = [CiIdle EXCEPT !.phase = "event", !.event = e,
                                !.branch = b, !.changed = c]

\* GitHub evaluates on: for the event and starts the job build or does not
CiDispatch ==
    /\ ci.phase = "event"
    /\ IF Triggers(ci.event, ci.branch, ci.changed)
       THEN ci' = [ci EXCEPT !.phase = "running"]
       ELSE ci' = [ci EXCEPT !.phase = "skipped"]
    /\ UNCHANGED <<pipeline, catalog, sel, ev, ps>>

\* the next step of the job runs and succeeds
CiStepSucceeds ==
    /\ ci.phase = "running"
    /\ Len(ci.ran) < Len(Steps)
    /\ LET ran == Append(ci.ran, Steps[Len(ci.ran) + 1])
       IN  ci' = [ci EXCEPT !.ran = ran,
                           !.phase = IF Len(ran) = Len(Steps)
                                     THEN "succeeded" ELSE "running"]
    /\ UNCHANGED <<pipeline, catalog, sel, ev, ps>>

\* variant: the failure is noted and the job goes on (continue-on-error)
CiStepFails_ContinueOnError ==
    /\ ci.phase = "running"
    /\ Len(ci.ran) < Len(Steps)
    /\ ci' = [ci EXCEPT !.failed = Steps[Len(ci.ran) + 1],
                        !.ran = Append(ci.ran, Steps[Len(ci.ran) + 1])]
    /\ UNCHANGED <<pipeline, catalog, sel, ev, ps>>

\* the next step of the job fails: the later steps are skipped
CiStepFails ==
    /\ ci.phase = "running"
    /\ Len(ci.ran) < Len(Steps)
    /\ ci' = [ci EXCEPT !.phase = "failed",
                        !.failed = Steps[Len(ci.ran) + 1]]
    /\ UNCHANGED <<pipeline, catalog, sel, ev, ps>>

CiNext ==
    \/ CiDispatch
    \/ CiStepSucceeds
    \/ CiStepFails

CiSpec == CiInit /\ [][CiNext]_vars

\* ------------------------------------------------------------- properties
Selected == sel.phase \in {"selected", "reselected"}

IsIn(x, s) == \E j \in 1..Len(s) : s[j] = x

\* a is b with some entries left out
RECURSIVE IsSubsequence(_, _)
IsSubsequence(a, b) ==
    IF a = <<>> THEN TRUE
    ELSE IF b = <<>> THEN FALSE
    ELSE IF Head(a) = Head(b) THEN IsSubsequence(Tail(a), Tail(b))
    ELSE IsSubsequence(a, Tail(b))

\* the largest magnitude of a gradient vector
MaxAbs(grads) ==
    CHOOSE m \in {Abs(grads[i]) : i \in 1..Len(grads)} :
        \A i \in 1..Len(grads) : Abs(grads[i]) <= m

\* the gradients of the scenario of the specification, and its cutoff 1e-5
ScenarioGrads == <<10000, 1, 20000, 5>>

\* the evaluations logged in one stage
CallsIn(stage) == SelectSeq(calls, LAMBDA c : c.stage = stage)

AllZero(v) == \A i \in 1..Len(v) : v[i] = 0

\* C1: the operation at index i is selected if and only if the magnitude of
\* its gradient is strictly greater than the cutoff; gradients
\* [0.01, 0.000001, 0.02, 0.000005] with cutoff 1e-5 select the operations
\* at indices 0 and 2.
C1_SelectorMembership ==
    Selected =>
        /\ \A i \in 1..Len(sel.cands) :
              IsIn(sel.cands[i], sel.out) <=> Abs(sel.grads[i]) > sel.cutoff
        /\ (sel.grads = ScenarioGrads /\ sel.cutoff = 10)
              => sel.out = <<sel.cands[1], sel.cands[3]>>

C1_Witness ==
    /\ Selected
    /\ sel.grads = ScenarioGrads
    /\ sel.cutoff = 10
    /\ sel.out = <<sel.cands[1], sel.cands[3]>>

\* C2: the Selected Set is no longer than the Candidate Set and is a
\* subsequence of it: nothing added, duplicated or reordered.
C2_SelectedIsSubsequence ==
    Selected =>
        /\ Len(sel.out) <= Len(sel.cands)
        /\ IsSubsequence(sel.out, sel.cands)

C2_Witness ==
    /\ Selected
    /\ Len(sel.out) >= 2
    /\ Len(sel.out) < Len(sel.cands)
    /\ IsSubsequence(sel.out, sel.cands)

\* C3: with an iteration count of 0 the joint optimizer loop leaves the
\* Parameter Vector at its initial value and reports the cost at it.
C3_ZeroIterations ==
    (pc = "Done" /\ iterations = 0) =>
        /\ params = Zeros(Len(gates_select))
        /\ best_energy = Expval(H, circuit_1(params, gates_select).gates)

\* C4: an optimizer step whose Parameter Vector and Operation list differ in
\* length raises, and no backend call is made.
C4_LengthMismatchRejected ==
    (ev.phase # "input" /\ Len(ev.params) # Len(ev.excitations)) =>
        /\ ev.raised # "none"
        /\ ev.backend_calls = 0

\* C5: after N >= 1 iterations the reported cost is the one of iteration N,
\* and the Parameter Vector is the one iteration N produced.
C5_FinalIterationCost ==
    (pc = "Done" /\ iterations >= 1) =>
        LET joint == CallsIn("JointOptimize")
            last == joint[Len(joint)]
        IN  /\ best_energy = last.cost
            /\ params = ApplyGrad(last.at, last.grad)

C5_Witness ==
    /\ pc = "Done"
    /\ iterations >= 2
    /\ LET joint == CallsIn("JointOptimize")
       IN  /\ joint[Len(joint)].cost > joint[1].cost
           /\ best_energy = joint[Len(joint)].cost

\* C6: each optimizer loop makes exactly `iterations` evaluations, whatever
\* the gradients were: never more while it runs, never fewer when it is left.
C6_ExactlyNIterations ==
    /\ Len(CallsIn("OptimizeDoubles")) <= iterations
    /\ Len(CallsIn("JointOptimize")) <= iterations
    /\ pc \in {"EnumerateSingles", "FilterSingles", "JointOptimize", "Done"}
          => Len(CallsIn("OptimizeDoubles")) = iterations
    /\ pc = "Done" => Len(CallsIn("JointOptimize")) = iterations

C6_Witness ==
    /\ pc = "Done"
    /\ iterations >= 2
    /\ gates_select # <<>>
    /\ LET joint == CallsIn("JointOptimize")
       IN  /\ Len(joint) = iterations
           /\ AllZero(joint[Len(joint)].grad)

\* C7: with an empty Selected Set the optimizer loop does nothing and the
\* procedure ends in Done with the initial Cost Value, for any number of
\* iterations.
C7_EmptySelectionNoOp ==
    (pc = "Done" /\ gates_select = <<>>) =>
        /\ params = <<>>
        /\ best_energy = Expval(H, <<>>)

\* C8: with cutoff 0 exactly the entries with a nonzero gradient are kept;
\* with a cutoff above every magnitude nothing is kept.
C8_SelectorEdgeCases ==
    Selected =>
        /\ sel.cutoff = 0 =>
              /\ \A i \in 1..Len(sel.cands) :
                    IsIn(sel.cands[i], sel.out) <=> sel.grads[i] # 0
              /\ Len(sel.out) =
                    Cardinality({i \in 1..Len(sel.grads) : sel.grads[i] # 0})
        /\ (\A i \in 1..Len(sel.grads) : Abs(sel.grads[i]) < sel.cutoff)
              => sel.out = <<>>

C8_Witness ==
    /\ Selected
    /\ sel.cutoff = 0
    /\ \E i \in 1..Len(sel.grads) : sel.grads[i] = 0
    /\ \E i \in 1..Len(sel.grads) : sel.grads[i] # 0
    /\ Len(sel.out) = Cardinality({i \in 1..Len(sel.grads) : sel.grads[i] # 0})

\* C9: with the cutoff equal to the largest gradient magnitude no entry of a
\* smaller magnitude is selected.
C9_CutoffAtMaximum ==
    (Selected /\ sel.grads # <<>> /\ sel.cutoff = MaxAbs(sel.grads)) =>
        \A i \in 1..Len(sel.cands) :
            Abs(sel.grads[i]) < sel.cutoff => ~IsIn(sel.cands[i], sel.out)

C9_Witness ==
    /\ Selected
    /\ sel.grads # <<>>
    /\ sel.cutoff = MaxAbs(sel.grads)
    /\ \E i \in 1..Len(sel.grads) : Abs(sel.grads[i]) < sel.cutoff
    /\ sel.out = <<>>

\* C10: the selector applied to what it selected, with the gradients of the
\* retained operations and the same cutoff, selects the same list.
C10_SelectorIdempotent ==
    sel.phase = "reselected" => sel.out2 = sel.out

C10_Witness ==
    /\ sel.phase = "reselected"
    /\ Len(sel.out) >= 1
    /\ Len(sel.out) < Len(sel.cands)
    /\ sel.out2 = sel.out

\* the operation list whose parameters a logged evaluation differentiated
OpsOf(stage) ==
    CASE stage = "EnumerateDoubles" -> doubles
      [] stage = "OptimizeDoubles" -> doubles_select
      [] stage = "EnumerateSingles" -> singles
      [] stage = "JointOptimize" -> gates_select

\* the gates of a tape that read the differentiated argument / a fixed angle
FreeGates(gates) == SelectSeq(gates, LAMBDA g : g.idx # 0)
FixedGates(gates) == SelectSeq(gates, LAMBDA g : g.idx = 0)

\* gate k of the list is operation k applied with entry k of the vector
PairedGates(gates, ops, angles) ==
    /\ Len(gates) = Len(ops)
    /\ Len(angles) = Len(ops)
    /\ \A k \in 1..Len(ops) :
          gates[k].wires = ops[k] /\ gates[k].theta = angles[k]

\* C11: wherever a Parameter Vector goes with an Operation list, the two
\* have the same length and entry i is the angle of operation i: in the two
\* gradient evaluations, in every optimizer step, for the fixed pair
\* doubles_select / params_doubles, and after every step.
C11_PairingInvariant ==
    /\ pc = "FilterDoubles" =>
          Len(params) = Len(doubles) /\ Len(doubles_grads) = Len(doubles)
    /\ pc \in {"OptimizeDoubles", "EnumerateSingles", "FilterSingles",
               "JointOptimize", "Done"} =>
          Len(params_doubles) = Len(doubles_select)
    /\ pc = "FilterSingles" =>
          Len(params) = Len(singles) /\ Len(singles_grads) = Len(singles)
    /\ pc \in {"JointOptimize", "Done"} => Len(params) = Len(gates_select)
    /\ \A c \in 1..Len(calls) :
          /\ PairedGates(FreeGates(calls[c].gates), OpsOf(calls[c].stage),
                         calls[c].at)
          /\ Len(calls[c].grad) = Len(calls[c].at)
          /\ calls[c].stage = "EnumerateSingles" =>
                PairedGates(FixedGates(calls[c].gates), doubles_select,
                            params_doubles)
          /\ calls[c].stage # "EnumerateSingles" =>
                FixedGates(calls[c].gates) = <<>>

C11_Witness ==
    /\ pc = "Done"
    /\ iterations >= 1
    /\ doubles_select # <<>>
    /\ singles_select # <<>>
    /\ ~AllZero(params_doubles)
    /\ ~AllZero(params)
    /\ Len(params) = Len(doubles_select) + Len(singles_select)

\* the stages of the procedure, in the order of the notebook
StageOrder ==
    <<"EnumerateDoubles", "FilterDoubles", "OptimizeDoubles",
      "EnumerateSingles", "FilterSingles", "JointOptimize", "Done">>

StageIndex(stage) == CHOOSE k \in 1..Len(StageOrder) : StageOrder[k] = stage

\* the stages that call the Gradient Evaluator
GradientStages ==
    {"EnumerateDoubles", "OptimizeDoubles", "EnumerateSingles", "JointOptimize"}

\* C12: the procedure starts in EnumerateDoubles; a step either is an
\* iteration inside one of the two optimizer stages, or moves to the next
\* stage of the list, or moves to Failed from a stage that calls the
\* Gradient Evaluator; no step leaves Done or Failed.
C12_LinearStages ==
    /\ pc = "EnumerateDoubles"
    /\ [][ /\ pc \notin {"Done", "Failed"}
           /\ \/ pc' = pc /\ pc \in {"OptimizeDoubles", "JointOptimize"}
              \/ /\ pc' \in Range(StageOrder)
                 /\ StageIndex(pc') = StageIndex(pc) + 1
              \/ /\ pc' = "Failed"
                 /\ pc \in GradientStages
                 /\ error' # "none" ]_vars

C12_Witness ==
    /\ pc = "Done"
    /\ iterations >= 1
    /\ Len(calls) = 2 + 2 * iterations
    /\ \A c \in 1..(Len(calls) - 1) :
          StageIndex(calls[c].stage) <= StageIndex(calls[c + 1].stage)
    /\ {calls[c].stage : c \in 1..Len(calls)} = GradientStages

\* C13: a failure of the Gradient Evaluator ends the run at once.  The step
\* that fails records the error and moves to Failed without logging a
\* completed evaluation, without counting an iteration and without touching
\* the results so far; an error never occurs without the move to Failed;
\* after the failure no step is taken at all (no retry, no later backend
\* call, no later stage), and Done, where the outcome is printed, is only
\* reached without an error.
C13_FailureAborts ==
    [][ /\ pc # "Failed"
        /\ error = "none"
        /\ (error' # "none") <=> (pc' = "Failed")
        /\ pc' = "Failed" =>
              /\ AtBackendCall
              /\ error' = "BackendError"
              /\ calls' = calls
              /\ n' = n
              /\ best_energy' = best_energy
              /\ params_doubles' = params_doubles
              /\ doubles_select' = doubles_select
              /\ singles_select' = singles_select
              /\ gates_select' = gates_select
        /\ pc' = "Done" => error' = "none" ]_vars

C13_Witness ==
    /\ pc = "Failed"
    /\ error = "BackendError"
    /\ Len(CallsIn("JointOptimize")) >= 1
    /\ Len(CallsIn("JointOptimize")) < iterations
    /\ n = Len(CallsIn("JointOptimize"))
    /\ ~AllZero(params)

\* the Cost Value of the operations ops at the parameters p
CostAt(p, ops) == Expval(H, circuit_1(p, ops).gates)

\* the partial derivative of the Cost Value with respect to parameter i at p,
\* as a central difference (exact for the quadratic landscapes)
Partial(p, ops, i) ==
    (CostAt(Bump(p, i, 2), ops) - CostAt(Bump(p, i, -2), ops)) \div 4

\* after is one gradient-descent step from before for the operations ops
DescentStep(before, after, ops) ==
    /\ Len(after) = Len(before)
    /\ \A i \in 1..Len(before) :
          after[i] = before[i] - StepsizeNum * Partial(before, ops, i)
    /\ (\A i \in 1..Len(before) : Partial(before, ops, i) = 0)
          => after = before

\* C14: every iteration of either optimizer loop replaces each parameter
\* p[i] by p[i] - stepsize * g[i] with g the gradient of the Cost Value at
\* the parameters before the step; an all-zero gradient changes nothing;
\* the lengths of the Parameter Vector and of the Operation list stay.
C14_OptimizerStep ==
    [][ (pc' = pc /\ n' = n + 1) =>
          /\ pc = "OptimizeDoubles" =>
                /\ DescentStep(params_doubles, params_doubles', doubles_select)
                /\ doubles_select' = doubles_select
                /\ Len(params_doubles') = Len(doubles_select')
          /\ pc = "JointOptimize" =>
                /\ DescentStep(params, params', gates_select)
                /\ gates_select' = gates_select
                /\ Len(params') = Len(gates_select') ]_vars

C14_Witness ==
    /\ pc = "JointOptimize"
    /\ n >= 1
    /\ Len(params) >= 2
    /\ calls[Len(calls)].stage = "JointOptimize"
    /\ ~AllZero(calls[Len(calls)].grad)
    /\ params # calls[Len(calls)].at
    /\ DescentStep(calls[Len(calls)].at, params, gates_select)
    /\ \E c \in 1..Len(calls) :
          /\ calls[c].stage = "OptimizeDoubles"
          /\ calls[c].at # <<>>
          /\ AllZero(calls[c].grad)

\* the Cost Value of circuit_2 at the singles parameters p, over the fixed
\* background of the selected doubles at their optimized parameters
CostOverBackground(p) ==
    Expval(H, circuit_2(p, singles, doubles_select, params_doubles).gates)

\* its partial derivative with respect to singles parameter i
PartialOverBackground(p, i) ==
    (CostOverBackground(Bump(p, i, 2)) - CostOverBackground(Bump(p, i, -2)))
        \div 4

\* C15: every gradient evaluation returns one entry per operation of the
\* differentiated list, entry i being the partial derivative of the Cost
\* Value with respect to parameter i of that list.  For the doubles that is
\* len(doubles) entries; for the singles over the background of the selected
\* doubles it is len(singles) entries, none of them for a background
\* parameter.
C15_GradientShape ==
    /\ \A c \in 1..Len(calls) :
          /\ calls[c].stage = "EnumerateDoubles" =>
                /\ calls[c].grad = doubles_grads
                /\ Len(calls[c].grad) = Len(doubles)
                /\ \A i \in 1..Len(doubles) :
                      calls[c].grad[i] = Partial(calls[c].at, doubles, i)
          /\ calls[c].stage = "EnumerateSingles" =>
                /\ calls[c].grad = singles_grads
                /\ Len(calls[c].grad) = Len(singles)
                /\ Len(calls[c].gates) = Len(doubles_select) + Len(singles)
                /\ \A i \in 1..Len(singles) :
                      calls[c].grad[i] = PartialOverBackground(calls[c].at, i)
    /\ pc \in {"FilterDoubles", "OptimizeDoubles", "EnumerateSingles",
               "FilterSingles", "JointOptimize", "Done"}
          => CallsIn("EnumerateDoubles") # <<>>
    /\ pc \in {"FilterSingles", "JointOptimize", "Done"}
          => CallsIn("EnumerateSingles") # <<>>

C15_Witness ==
    /\ pc = "FilterSingles"
    /\ doubles_select # <<>>
    /\ ~AllZero(params_doubles)
    /\ Len(singles_grads) = Len(singles)
    /\ Len(singles) >= 2
    /\ ~AllZero(singles_grads)
    /\ \E i \in 1..Len(singles) : singles_grads[i] = 0

\* the comparison has the unbatched, respectively the batched, derivatives
UnbatchedKnown ==
    ps.phase \in {"unbatched", "batched", "extrapolated", "unbatched_checked",
                  "checked"}

BatchedKnown ==
    ps.phase \in {"batched", "extrapolated", "unbatched_checked", "checked"}

\* a is within atol + rtol * |b| of b
Within(a, b) ==
    Abs(a - b) * AllCloseRtolInv <= AllCloseAtol * AllCloseRtolInv + Abs(b)

C19_CandidateSetsReadOnly ==
    /\ doubles = Doubles(Electrons, qubits)
    /\ singles = Singles(Electrons, qubits)
    /\ [][doubles' = doubles /\ singles' = singles]_vars

C19_Witness ==
    /\ ps.phase = "checked"
    /\ iterations >= 1
    /\ doubles_select # <<>>
    /\ doubles_select # doubles
    /\ singles_select # <<>>
    /\ singles_select # singles
    /\ ps.doubles_ps # <<>>
    /\ ps.doubles_ps # doubles
    /\ doubles = Doubles(Electrons, qubits)
    /\ singles = Singles(Electrons, qubits)

\* the job build of the workflow was started
CiJobStarted == ci.phase \in {"running", "succeeded", "failed"}

\* C20: the workflow executes only on modification of yml files: an event
\* that changes no yml file does not start the build job.
C20_OnlyOnYmlChange == CiJobStarted => "yml" \in ci.changed

\* the positions in the log of the evaluations of a stage
PositionsOf(stage) == {c \in 1..Len(calls) : calls[c].stage = stage}

\* C21: the singles gradient is evaluated only after the doubles
\* optimization has made all its iterations; its background is doubles_select
\* with the Parameter Vector the last doubles optimizer step returned (the
\* initial zeros when there was no iteration); the singles parameters at
\* which the gradient is taken are all 0; and the evaluation changes neither
\* doubles_select nor params_doubles.
C21_SinglesAfterDoubles ==
    /\ [](\A c \in PositionsOf("EnumerateSingles") :
            /\ Cardinality(PositionsOf("OptimizeDoubles")) = iterations
            /\ \A d \in PositionsOf("OptimizeDoubles") : d < c
            /\ PairedGates(FixedGates(calls[c].gates), doubles_select,
                           params_doubles)
            /\ IF iterations = 0
               THEN params_doubles = Zeros(Len(doubles_select))
               ELSE LET last == calls[c - 1]
                    IN  /\ last.stage = "OptimizeDoubles"
                        /\ DescentStep(last.at, params_doubles, doubles_select)
            /\ calls[c].at = Zeros(Len(singles))
            /\ \A k \in 1..Len(calls[c].gates) :
                  calls[c].gates[k].idx # 0 => calls[c].gates[k].theta = 0)
    /\ [][pc = "EnumerateSingles" =>
            /\ doubles_select' = doubles_select
            /\ params_doubles' = params_doubles]_vars

C21_Witness ==
    /\ pc = "FilterSingles"
    /\ iterations >= 2
    /\ doubles_select # <<>>
    /\ ~AllZero(params_doubles)
    /\ calls[Len(calls)].stage = "EnumerateSingles"
    /\ FixedGates(calls[Len(calls)].gates) # <<>>
    /\ \E k \in 1..Len(calls[Len(calls)].gates) :
          calls[Len(calls)].gates[k].idx = 0
          /\ calls[Len(calls)].gates[k].theta # 0
    /\ params_doubles # calls[2].at

\* C22: with every backend call returning or failing, the procedure reaches
\* Done or Failed; when it reaches Done it has made exactly two
\* candidate-gradient evaluations and 2 * iterations optimizer steps,
\* whatever the Candidate Sets and the gradients were.
C22_Terminates ==
    /\ <>(pc \in {"Done", "Failed"})
    /\ [](pc = "Done" =>
            /\ Cardinality(PositionsOf("EnumerateDoubles")) = 1
            /\ Cardinality(PositionsOf("EnumerateSingles")) = 1
            /\ Cardinality(PositionsOf("OptimizeDoubles")) = iterations
            /\ Cardinality(PositionsOf("JointOptimize")) = iterations
            /\ Len(calls) = 2 + 2 * iterations
            /\ error = "none")

C22_Witness ==
    /\ pc = "Done"
    /\ iterations >= 2
    /\ Cardinality(PositionsOf("OptimizeDoubles")
                   \cup PositionsOf("JointOptimize")) = 2 * iterations
    /\ doubles_select = <<>>
    /\ singles_select # <<>>

\* C23: the procedure is sequential.  A step issues at most one Gradient
\* Evaluator call and that call has returned when the step ends (the log
\* grows by at most one completed evaluation per step); an optimizer
\* iteration is evaluated at the current Parameter Vector; and within one
\* loop iteration n+1 is evaluated at exactly the vector iteration n
\* produced.
C23_Sequential ==
    /\ [](\A c \in 1..(Len(calls) - 1) :
            (calls[c].stage = calls[c + 1].stage
             /\ calls[c].stage \in {"OptimizeDoubles", "JointOptimize"})
            => DescentStep(calls[c].at, calls[c + 1].at, OpsOf(calls[c].stage)))
    /\ [][ /\ Len(calls') <= Len(calls) + 1
           /\ SubSeq(calls', 1, Len(calls)) = calls
           /\ (pc' = pc /\ n' = n + 1) =>
                 /\ Len(calls') = Len(calls) + 1
                 /\ pc = "OptimizeDoubles" =>
                       calls'[Len(calls')].at = params_doubles
                 /\ pc = "JointOptimize" =>
                       calls'[Len(calls')].at = params ]_vars

C23_Witness ==
    /\ pc = "Done"
    /\ iterations >= 2
    /\ Len(gates_select) >= 2
    /\ LET joint == CallsIn("JointOptimize")
       IN  /\ joint[1].at # joint[2].at
           /\ ~AllZero(joint[2].grad)
           /\ DescentStep(joint[1].at, joint[2].at, gates_select)
           /\ params # joint[2].at

\* the tasks of the batch completed in another order than they were submitted
OutOfOrder ==
    \E j \in 1..(Len(ps.completed) - 1) :
        ps.completed[j].task > ps.completed[j + 1].task

JointGradientNonzero(p) ==
    \E i \in 1..Len(p) : Partial(p, gates_select, i) # 0

\* C25: after at least one iteration the reported best_energy is the cost at
\* the Parameter Vector as it was before the last update, and the final
\* Parameter Vector is that vector moved by one step; when the last gradient
\* was nonzero the two differ and best_energy is not the cost at the final
\* Parameter Vector.
C25_CostBeforeLastUpdate ==
    (pc = "Done" /\ iterations >= 1) =>
        LET before == calls[Len(calls)].at
        IN  /\ calls[Len(calls)].stage = "JointOptimize"
            /\ best_energy = CostAt(before, gates_select)
            /\ DescentStep(before, params, gates_select)
            /\ JointGradientNonzero(before) =>
                  /\ params # before
                  /\ best_energy # CostAt(params, gates_select)

C25_Witness ==
    /\ pc = "Done"
    /\ iterations >= 1
    /\ JointGradientNonzero(calls[Len(calls)].at)
    /\ best_energy = CostAt(calls[Len(calls)].at, gates_select)
    /\ best_energy # CostAt(params, gates_select)
    /\ CostAt(params, gates_select) < best_energy

\* C26: the joint optimization starts from an all-zero Parameter Vector, also
\* when the doubles optimization ended at nonzero parameters: its first
\* evaluation is at zeros for every entry, the doubles entries included.
\* params_doubles enters a circuit only as the fixed angles of the singles
\* gradient evaluation, and it is not changed once the doubles loop is left.
C26_JointStartsFromZeros ==
    /\ []((pc = "JointOptimize" /\ n = 0) =>
            params = Zeros(Len(doubles_select) + Len(singles_select)))
    /\ [](\A c \in PositionsOf("JointOptimize") :
            /\ (c - 1) \in PositionsOf("EnumerateSingles") =>
                  /\ calls[c].at = Zeros(Len(gates_select))
                  /\ \A k \in 1..Len(calls[c].gates) :
                        calls[c].gates[k].theta = 0
            /\ FixedGates(calls[c].gates) = <<>>)
    /\ [][(pc \in {"EnumerateSingles", "FilterSingles", "JointOptimize"})
             => (params_doubles' = params_doubles)]_vars

C26_Witness ==
    /\ pc = "JointOptimize"
    /\ n >= 1
    /\ doubles_select # <<>>
    /\ ~AllZero(params_doubles)
    /\ LET first == CallsIn("JointOptimize")[1]
       IN  /\ AllZero(first.at)
           /\ Len(first.at) > Len(singles_select)
           /\ first.gates[1].wires = doubles_select[1]
           /\ first.gates[1].theta # params_doubles[1]

\* the wires of the gates of a tape, in the order they are applied
WiresOf(gates) == [k \in 1..Len(gates) |-> gates[k].wires]

\* C27: the joint Operation list is doubles_select followed by
\* singles_select: its length is the sum of the two, every selected double
\* comes before every selected single, each block is in the order of its
\* Candidate Set, and the gates of the list appear in this same order on the
\* tape circuit_2 ran when the singles were selected (doubles first).
C27_JointListOrder ==
    pc \in {"JointOptimize", "Done"} =>
        /\ Len(gates_select) = Len(doubles_select) + Len(singles_select)
        /\ SubSeq(gates_select, 1, Len(doubles_select)) = doubles_select
        /\ SubSeq(gates_select, Len(doubles_select) + 1, Len(gates_select))
              = singles_select
        /\ \A i, j \in 1..Len(gates_select) :
              (Len(gates_select[i]) = 4 /\ Len(gates_select[j]) = 2) => i < j
        /\ IsSubsequence(doubles_select, doubles)
        /\ IsSubsequence(singles_select, singles)
        /\ \A c \in PositionsOf("EnumerateSingles") :
              /\ IsSubsequence(gates_select, WiresOf(calls[c].gates))
              /\ SelectSeq(WiresOf(calls[c].gates),
                           LAMBDA w : IsIn(w, gates_select)) = gates_select
        /\ \A c \in PositionsOf("JointOptimize") :
              WiresOf(calls[c].gates) = gates_select

C27_Witness ==
    /\ pc = "Done"
    /\ iterations >= 1
    /\ Len(doubles_select) >= 1
    /\ Len(singles_select) >= 2
    /\ Len(singles_select) < Len(singles)
    /\ gates_select = doubles_select \o singles_select
    /\ Len(gates_select[1]) = 4
    /\ Len(gates_select[Len(gates_select)]) = 2

\* the two builders have run on the harness input
Built == ev.phase = "built"

\* the entries of the harness input that have two or four wires
DispatchedEntries ==
    {i \in 1..Len(ev.excitations) : Len(ev.excitations[i]) \in {2, 4}}

\* the gate either builder applies for entry i
GateFor(i) ==
    Gate(IF Len(ev.excitations[i]) = 4 THEN "DoubleExcitation"
         ELSE "SingleExcitation",
         ev.params[i], ev.excitations[i], i)

\* C28: on an Operation list whose entries all have 2 or 4 wires, circuit_2
\* with an empty background builds exactly what circuit_1 builds: the same
\* gates with the same parameters in the same order (or the same exception).
\* On any list, circuit_1 applies every entry, one of another arity as a
\* single excitation, while circuit_2 applies the entries of 2 or 4 wires
\* only, each still with params[i] for its own index i; so the two differ
\* only when the list has an entry of another arity.
C28_ArityDispatch ==
    Built =>
        /\ DispatchedEntries = 1..Len(ev.excitations)
              => ev.built_2 = ev.built_1
        /\ ev.built_1 # ev.built_2
              => DispatchedEntries # 1..Len(ev.excitations)
        /\ ev.built_1.raised = "none" =>
              /\ Len(ev.built_1.gates) = Len(ev.excitations)
              /\ \A i \in 1..Len(ev.excitations) :
                    ev.built_1.gates[i] = GateFor(i)
        /\ ev.built_2.raised = "none" =>
              /\ Len(ev.built_2.gates) = Cardinality(DispatchedEntries)
              /\ \A k \in 1..Len(ev.built_2.gates) :
                    /\ ev.built_2.gates[k].idx \in DispatchedEntries
                    /\ ev.built_2.gates[k] = GateFor(ev.built_2.gates[k].idx)
                    /\ k > 1 => ev.built_2.gates[k - 1].idx
                                   < ev.built_2.gates[k].idx
        /\ (ev.built_1.raised = "none" /\ ev.built_2.raised = "none") =>
              ev.built_2.gates =
                  SelectSeq(ev.built_1.gates,
                            LAMBDA g : Len(g.wires) \in {2, 4})

C28_Witness ==
    /\ Built
    /\ Len(ev.excitations) >= 2
    /\ Len(ev.excitations[1]) \notin {2, 4}
    /\ Len(ev.excitations[2]) = 4
    /\ Len(ev.params) >= 2
    /\ ev.params[2] # ev.params[1]
    /\ ev.built_1.raised = "none"
    /\ ev.built_1.gates[1].name = "SingleExcitation"
    /\ Len(ev.built_2.gates) = 1
    /\ ev.built_2.gates[1].theta = ev.params[2]

\* the position of a step among the steps that ran, 0 when it did not run
RanAt(step) ==
    IF \E k \in 1..Len(ci.ran) : ci.ran[k] = step
    THEN CHOOSE k \in 1..Len(ci.ran) : ci.ran[k] = step
    ELSE 0

\* C29: the steps of the build job run one after the other in the listed
\* order; the image is pulled after the checkout and the Python setup and
\* before the build script starts, which names that same image; once a step
\* has failed no later step runs, so the build script never runs after an
\* earlier failure.
C29_StepsInOrder ==
    /\ [](/\ Len(ci.ran) <= Len(Steps)
          /\ ci.ran = SubSeq(Steps, 1, Len(ci.ran))
          /\ RanAt("Pull Docker image") # 0 =>
                /\ RanAt("actions/checkout@v4") # 0
                /\ RanAt("Setup python 3.11") # 0
                /\ RanAt("actions/checkout@v4") < RanAt("Pull Docker image")
                /\ RanAt("Setup python 3.11") < RanAt("Pull Docker image")
          /\ RanAt("Build conda environment") # 0 =>
                /\ RanAt("Pull Docker image") # 0
                /\ RanAt("Pull Docker image")
                      < RanAt("Build conda environment")
                /\ ci.failed = "none"
          /\ StepImage("Build conda environment")
                = StepImage("Pull Docker image")
          /\ StepImage("Pull Docker image") # "none"
          /\ ci.phase = "failed" =>
                /\ ci.failed = Steps[Len(ci.ran) + 1]
                /\ RanAt("Build conda environment") = 0
          /\ ci.phase = "succeeded" => ci.ran = Steps /\ ci.failed = "none")
    /\ [][ /\ ci.phase \notin {"failed", "succeeded", "skipped"}
           /\ Len(ci.ran') <= Len(ci.ran) + 1
           /\ SubSeq(ci.ran', 1, Len(ci.ran)) = ci.ran ]_vars

C29_Witness ==
    /\ ci.phase = "failed"
    /\ ci.failed = "Pull Docker image"
    /\ ci.ran = <<"Maximize build space", "actions/checkout@v4",
                  "Setup python 3.11">>

\* the comparison cells have sliced the Candidate Set
Sliced == ps.phase # "idle"

\* the extrapolation cells have run without raising
Extrapolated == ps.phase \in {"extrapolated", "unbatched_checked", "checked"}

C30_DividedByZero ==
    /\ ps.phase = "raised"
    /\ ps.raised = "ZeroDivisionError"
    /\ doubles = <<>>

====
